---------------------------- MODULE Spec2Model ----------------------------
(***************************************************************************)
(* Model of the chat-agent application: the Streamlit session controller   *)
(* (main.py, components/chat.py), the chat stores (utils/message_store.py, *)
(* utils/mongodb_message_store.py) and the prompt store                    *)
(* (utils/mongodb_prompt_store.py).                                        *)
(*                                                                         *)
(* Python strings are sequences of one-character strings, so that          *)
(* startswith, split, strip, lower and replace are computed, not assumed.  *)
(* A Python dict is a function whose DOMAIN is its set of keys; an         *)
(* optional value (None or a value) is <<>> or <<value>>.                  *)
(***************************************************************************)
EXTENDS Naturals, Sequences, FiniteSets, TLC

VARIABLES
    ss,                  \* st.session_state of every browser session
    chats_collection,    \* MongoDB collection of chat documents, in natural order
    prompts_collection,  \* MongoDB collection of prompt documents, in natural order
    files,               \* storage directory of the file-backed MessageStore
    next_uuid,           \* how many uuid4() values have been drawn
    clock,               \* datetime.now(), as a logical time
    last_call            \* the last handler or store call: its inputs and its outcome

vars == <<ss, chats_collection, prompts_collection, files, next_uuid, clock, last_call>>

-----------------------------------------------------------------------------
(* Bounds of the model *)

MaxInputLen == 5
MaxSubmits == 2
MaxChats == 2
MaxClock == 3
MaxPrompts == 3
MaxPayloadLen == 2

-----------------------------------------------------------------------------
(* Python str operations *)

\* str.isspace for one character; str.strip() removes these
IsSpace(c) == c \in {" ", "\t", "\n"}

\* str.lower() on one character of the alphabet in use
LowerChar(c) ==
    CASE c = "G" -> "g"
      [] c = "A" -> "a"
      [] c = "B" -> "b"
      [] c = "L" -> "l"
      [] OTHER -> c

\* s.lower()
Lower(s) == [i \in 1..Len(s) |-> LowerChar(s[i])]

\* s.replace(a, b) for one-character a and b
Replace(s, a, b) == [i \in 1..Len(s) |-> IF s[i] = a THEN b ELSE s[i]]

\* s.startswith(c)
StartsWith(s, c) == Len(s) > 0 /\ s[1] = c

\* c in s
Contains(s, c) == \E i \in 1..Len(s) : s[i] = c

\* s.split(" ")[0]: s up to, not including, the first space
SplitFirst(s) ==
    IF Contains(s, " ")
    THEN SubSeq(s, 1, (CHOOSE i \in 1..Len(s) :
                          s[i] = " " /\ \A j \in 1..(i-1) : s[j] # " ") - 1)
    ELSE s

\* s.strip()
Strip(s) ==
    IF \A i \in 1..Len(s) : IsSpace(s[i])
    THEN <<>>
    ELSE LET first == CHOOSE i \in 1..Len(s) :
                          ~IsSpace(s[i]) /\ \A j \in 1..(i-1) : IsSpace(s[j])
             last  == CHOOSE i \in 1..Len(s) :
                          ~IsSpace(s[i]) /\ \A j \in (i+1)..Len(s) : IsSpace(s[j])
         IN SubSeq(s, first, last)

\* s[n:]
DropFirst(s, n) == SubSeq(s, n + 1, Len(s))

\* all strings over alphabet of length at most n
StringsUpTo(alphabet, n) == UNION {[1..k -> alphabet] : k \in 0..n}

\* a dict: the function f with key k set to v
DictSet(f, k, v) == (k :> v) @@ f

\* a dict: the function f without the keys in ks
DictDel(f, ks) == [k \in DOMAIN f \ ks |-> f[k]]

\* datetime.now().strftime(...): the timestamp of logical time t
Timestamp(t) == <<t>>

-----------------------------------------------------------------------------
(* MongoDBPromptStore: utils/mongodb_prompt_store.py *)

\* the command of a title: "/" + title.lower().replace(" ", "-")
DeriveCommand(title) == <<"/">> \o Replace(Lower(title), " ", "-")

\* the indexes of the documents of coll whose command is command
MatchingPrompts(coll, command) == {i \in 1..Len(coll) : coll[i].command = command}

\* the first document a query {"command": command} finds
FirstPrompt(coll, command) ==
    CHOOSE i \in MatchingPrompts(coll, command) :
        \A j \in MatchingPrompts(coll, command) : i <= j

\* UpsertPrompt as an insert_one: the document is added whatever is stored
InsertPrompt(coll, command, doc) == Append(coll, doc)

\* prompts_collection.update_one(query, {"$set": doc}, upsert=True)
UpsertPrompt(coll, command, doc) ==
    IF MatchingPrompts(coll, command) = {}
    THEN Append(coll, doc)
    ELSE [coll EXCEPT ![FirstPrompt(coll, command)] = doc]

\* save_prompt(title, content): the collection afterwards
save_prompt(coll, title, content, now) ==
    UpsertPrompt(coll, DeriveCommand(title),
                 [title |-> title, command |-> DeriveCommand(title),
                  content |-> content, last_updated |-> Timestamp(now)])

\* get_all_prompts(): every document, in the collection's order
get_all_prompts(coll) == coll

\* delete_prompt(command): delete_one removes the first match, if any
delete_prompt(coll, command) ==
    IF MatchingPrompts(coll, command) = {}
    THEN coll
    ELSE LET i == FirstPrompt(coll, command)
         IN SubSeq(coll, 1, i - 1) \o SubSeq(coll, i + 1, Len(coll))

\* get_prompt_by_command(command): <<>> (None) or <<document>>
get_prompt_by_command(coll, command) ==
    IF MatchingPrompts(coll, command) = {}
    THEN <<>>
    ELSE <<coll[FirstPrompt(coll, command)]>>

-----------------------------------------------------------------------------
(* JSON values, as json.loads builds them: null, numbers, str, list, dict *)

JNull == [t |-> "null"]
JNum(n) == [t |-> "num", num |-> n]
JStr(s) == [t |-> "str", str |-> s]
JArr(xs) == [t |-> "arr", arr |-> xs]
JObj(f) == [t |-> "obj", obj |-> f]

\* the text of an uploaded file: not JSON at all, or the JSON text of a value
InvalidJson == [valid |-> FALSE]
JsonText(value) == [valid |-> TRUE, value |-> value]

KeyTitle == <<"t", "i", "t", "l", "e">>
KeyContent == <<"c", "o", "n", "t", "e", "n", "t">>

\* pat in s, for two str
IsSubstring(pat, s) ==
    \E i \in 0..(Len(s) - Len(pat)) : SubSeq(s, i + 1, i + Len(pat)) = pat

\* iter(value) raises TypeError unless value is a list, a dict or a str
IsIterable(value) == value.t \in {"arr", "obj", "str"}

\* len(value), for an iterable value
PyLen(value) ==
    CASE value.t = "obj" -> Cardinality(DOMAIN value.obj)
      [] value.t = "arr" -> Len(value.arr)
      [] value.t = "str" -> Len(value.str)

\* key in item: what Python's "in" answers, or "TypeError"
PyIn(key, item) ==
    CASE item.t = "obj" -> IF key \in DOMAIN item.obj THEN "yes" ELSE "no"
      [] item.t = "str" -> IF IsSubstring(key, item.str) THEN "yes" ELSE "no"
      [] item.t = "arr" -> IF \E i \in 1..Len(item.arr) :
                                 item.arr[i].t = "str" /\ item.arr[i].str = key
                           THEN "yes" ELSE "no"
      [] OTHER -> "TypeError"

\* the Python value a JSON value is stored as: a str as its characters
PyValue(value) == IF value.t = "str" THEN value.str ELSE value

\* one turn of the loop of import_prompts_from_json over item:
\* if "title" in prompt and "content" in prompt: save_prompt(...)
ImportItem(coll, item, now) ==
    CASE PyIn(KeyTitle, item) = "TypeError" -> [coll |-> coll, raised |-> "TypeError"]
      [] PyIn(KeyTitle, item) = "no" -> [coll |-> coll, raised |-> ""]
      [] PyIn(KeyContent, item) = "no" -> [coll |-> coll, raised |-> ""]
      \* prompt["title"] of a str or a list
      [] item.t # "obj" -> [coll |-> coll, raised |-> "TypeError"]
      \* title.lower() of a value that is no str
      [] item.obj[KeyTitle].t # "str" -> [coll |-> coll, raised |-> "AttributeError"]
      [] OTHER -> [coll |-> save_prompt(coll, item.obj[KeyTitle].str,
                                        PyValue(item.obj[KeyContent]), now),
                   raised |-> ""]

\* the loop over items, stopping at the first exception
RECURSIVE ImportItems(_, _, _)
ImportItems(coll, items, now) ==
    IF items = <<>>
    THEN [coll |-> coll, raised |-> ""]
    ELSE LET r == ImportItem(coll, Head(items), now)
         IN IF r.raised # "" THEN r ELSE ImportItems(r.coll, Tail(items), now)

\* what the for loop iterates over: a list's entries; for a dict its keys and
\* for a str its characters, each a str (no str item is ever saved, so the
\* order of a dict's keys does not change the outcome)
RECURSIVE SetToSeq(_)
SetToSeq(S) ==
    IF S = {} THEN <<>>
    ELSE LET x == CHOOSE x \in S : TRUE IN <<x>> \o SetToSeq(S \ {x})

IterItems(value) ==
    CASE value.t = "arr" -> value.arr
      [] value.t = "obj" -> [i \in 1..Cardinality(DOMAIN value.obj) |->
                                JStr(SetToSeq(DOMAIN value.obj)[i])]
      [] value.t = "str" -> [i \in 1..Len(value.str) |-> JStr(<<value.str[i]>>)]

\* import_prompts_from_json(json_str): the collection afterwards, the
\* exception that leaves the method ("" for none) and the returned count
\* (<<>> when it raised)
import_prompts_from_json(coll, text, now) ==
    IF ~text.valid
    THEN [coll |-> coll, raised |-> "", ret |-> <<0>>]
    ELSE IF ~IsIterable(text.value)
    THEN [coll |-> coll, raised |-> "TypeError", ret |-> <<>>]
    ELSE LET r == ImportItems(coll, IterItems(text.value), now)
         IN IF r.raised # ""
            THEN [coll |-> r.coll, raised |-> r.raised, ret |-> <<>>]
            ELSE [coll |-> r.coll, raised |-> "", ret |-> <<PyLen(text.value)>>]

KeyCommand == <<"c", "o", "m", "m", "a", "n", "d">>
KeyLastUpdated == <<"l", "a", "s", "t", "_", "u", "p", "d", "a", "t", "e", "d">>

\* json.dumps of a document of get_all_prompts(): an object of its four
\* fields, the "_id" removed
DumpPrompt(doc) ==
    JObj([k \in {KeyTitle, KeyCommand, KeyContent, KeyLastUpdated} |->
             CASE k = KeyTitle -> JStr(doc.title)
               [] k = KeyCommand -> JStr(doc.command)
               [] k = KeyContent -> JStr(doc.content)
               [] OTHER -> JStr(doc.last_updated)])

\* export_prompts_to_json with the command of a document written as its title
export_prompts_to_json_command_as_title(coll) ==
    JsonText(JArr([i \in 1..Len(get_all_prompts(coll)) |->
                      DumpPrompt([get_all_prompts(coll)[i] EXCEPT
                                     !.title = get_all_prompts(coll)[i].command])]))

\* export_prompts_to_json(): the JSON text of the array of all prompts
export_prompts_to_json(coll) ==
    JsonText(JArr([i \in 1..Len(get_all_prompts(coll)) |->
                      DumpPrompt(get_all_prompts(coll)[i])]))

-----------------------------------------------------------------------------
(* The chat stores: utils/mongodb_message_store.py and utils/message_store.py *)

\* get_safe_username / the safe_username of get_user_file_path
get_safe_username(user_name) == Replace(Lower(user_name), " ", "_")

\* the indexes of the documents a query {"user_name": .., "chat_id": ..} finds
MatchingChats(coll, safe_username, chat_id) ==
    {i \in 1..Len(coll) :
        coll[i].user_name = safe_username /\ coll[i].chat_id = chat_id}

FirstChat(coll, safe_username, chat_id) ==
    CHOOSE i \in MatchingChats(coll, safe_username, chat_id) :
        \A j \in MatchingChats(coll, safe_username, chat_id) : i <= j

\* mongo_save_chat with the query on the chat id alone
mongo_save_chat_any_user(coll, user_name, chat_id, chat_data) ==
    LET safe_username == get_safe_username(user_name)
        doc == [user_name |-> safe_username, chat_id |-> chat_id,
                messages |-> chat_data.messages,
                last_updated |-> chat_data.last_updated]
        found == {i \in 1..Len(coll) : coll[i].chat_id = chat_id}
    IN IF found = {}
       THEN Append(coll, doc)
       ELSE [coll EXCEPT ![CHOOSE i \in found : \A j \in found : i <= j] = doc]

\* mongo_save_chat merging: the last two messages of chat_data pushed onto
\* the messages already stored
mongo_save_chat_merging(coll, user_name, chat_id, chat_data) ==
    LET safe_username == get_safe_username(user_name)
        found == {i \in 1..Len(coll) :
                     coll[i].user_name = safe_username /\ coll[i].chat_id = chat_id}
        new == SubSeq(chat_data.messages, Len(chat_data.messages) - 1,
                      Len(chat_data.messages))
        doc == [user_name |-> safe_username, chat_id |-> chat_id,
                messages |-> chat_data.messages,
                last_updated |-> chat_data.last_updated]
    IN IF found = {}
       THEN Append(coll, doc)
       ELSE LET i == CHOOSE i \in found : \A j \in found : i <= j
            IN [coll EXCEPT ![i] = [doc EXCEPT !.messages = coll[i].messages \o new]]

\* MongoDBMessageStore.save_chat: update_one(query, {"$set": ...}, upsert=True)
mongo_save_chat(coll, user_name, chat_id, chat_data) ==
    LET safe_username == get_safe_username(user_name)
        doc == [user_name |-> safe_username, chat_id |-> chat_id,
                messages |-> chat_data.messages,
                last_updated |-> chat_data.last_updated]
    IN IF MatchingChats(coll, safe_username, chat_id) = {}
       THEN Append(coll, doc)
       ELSE [coll EXCEPT ![FirstChat(coll, safe_username, chat_id)] = doc]

\* how many messages the collection holds, over all its documents
RECURSIVE StoredMessages(_)
StoredMessages(coll) ==
    IF coll = <<>> THEN 0
    ELSE Len(Head(coll).messages) + StoredMessages(Tail(coll))

\* MongoDBMessageStore.load_all_chats: the dict built from the cursor, a later
\* document of a chat id replacing an earlier one
mongo_load_all_chats(coll, user_name) ==
    LET safe_username == get_safe_username(user_name)
        mine == {i \in 1..Len(coll) : coll[i].user_name = safe_username}
        last(c) == CHOOSE i \in mine :
                      coll[i].chat_id = c
                      /\ \A j \in mine : coll[j].chat_id = c => j <= i
    IN [c \in {coll[i].chat_id : i \in mine} |->
           [messages |-> coll[last(c)].messages,
            last_updated |-> coll[last(c)].last_updated]]

\* mongo_load_chat with find_one on the chat id alone
mongo_load_chat_any_user(coll, user_name, chat_id, now) ==
    LET found == {i \in 1..Len(coll) : coll[i].chat_id = chat_id}
        first == CHOOSE i \in found : \A j \in found : i <= j
    IN IF found = {}
       THEN [messages |-> <<>>, last_updated |-> Timestamp(now)]
       ELSE [messages |-> coll[first].messages,
             last_updated |-> coll[first].last_updated]

\* MongoDBMessageStore.load_chat: find_one, or a fresh empty session
mongo_load_chat(coll, user_name, chat_id, now) ==
    LET safe_username == get_safe_username(user_name)
    IN IF MatchingChats(coll, safe_username, chat_id) = {}
       THEN [messages |-> <<>>, last_updated |-> Timestamp(now)]
       ELSE [messages |-> coll[FirstChat(coll, safe_username, chat_id)].messages,
             last_updated |->
                 coll[FirstChat(coll, safe_username, chat_id)].last_updated]

\* MessageStore.get_user_file_path: the file of a user in the storage directory
get_user_file_path(user_name) == get_safe_username(user_name) \o <<"_chats.json">>

\* the chats a file holds: json.load, or {} when the file is missing or is not JSON
FileChats(fs, path) ==
    IF path \in DOMAIN fs /\ fs[path].valid THEN fs[path].chats ELSE <<>>

\* MessageStore.save_chat: read the user's file, set the chat, write the file
file_save_chat(fs, user_name, chat_id, chat_data) ==
    LET file_path == get_user_file_path(user_name)
    IN DictSet(fs, file_path,
               [valid |-> TRUE,
                chats |-> DictSet(FileChats(fs, file_path), chat_id, chat_data)])

\* MessageStore.load_all_chats
file_load_all_chats(fs, user_name) == FileChats(fs, get_user_file_path(user_name))

\* MessageStore.load_chat: all_chats.get(chat_id, fresh empty session)
file_load_chat(fs, user_name, chat_id, now) ==
    LET all_chats == file_load_all_chats(fs, user_name)
    IN IF chat_id \in DOMAIN all_chats
       THEN all_chats[chat_id]
       ELSE [messages |-> <<>>, last_updated |-> Timestamp(now)]

-----------------------------------------------------------------------------
(* The completion client: get_ollama_response of components/chat.py *)

\* the role a message is rendered with
RenderRole(msg) == IF msg.role = "user" THEN "User" ELSE "Assistant"

\* conversation_context: every message as "<Role>: <content>\n\n"
RECURSIVE ConversationContext(_)
ConversationContext(messages) ==
    IF messages = <<>>
    THEN <<>>
    ELSE <<RenderRole(Head(messages)), ":", " ">> \o Head(messages).content
         \o <<"\n", "\n">> \o ConversationContext(Tail(messages))

\* full_prompt = f"{conversation_context}User: {prompt}\n\nAssistant:"
FullPrompt(prompt, messages) ==
    ConversationContext(messages) \o <<"User", ":", " ">> \o prompt
    \o <<"\n", "\n", "Assistant", ":">>

\* the exceptions of requests that are a requests.exceptions.ConnectionError:
\* the class itself and ConnectTimeout, which derives from it and from Timeout
ConnectionErrors == {"ConnectionError", "ConnectTimeout"}

\* what requests.post and response.json() do: a response with a status code
\* and perhaps a "response" field, or an exception
EndpointOutcomes ==
    {[kind |-> "ok", text |-> <<<<"h", "i">>>>],
     [kind |-> "ok", text |-> <<>>],
     [kind |-> "status", code |-> "500"],
     [kind |-> "ConnectionError"],
     [kind |-> "ConnectTimeout"],
     [kind |-> "ReadTimeout", message |-> "Read timed out."],
     [kind |-> "JSONDecodeError", message |-> "Expecting value"]}

\* get_ollama_response with no fallback for a body without a "response" field
get_ollama_response_no_fallback(prompt, messages, model, outcome) ==
    LET request == [model |-> model, prompt |-> FullPrompt(prompt, messages),
                    stream |-> FALSE]
        text == CASE outcome.kind = "ok" ->
                       IF outcome.text # <<>> THEN outcome.text[1] ELSE <<>>
                  [] outcome.kind = "status" ->
                       <<"Error: Received status code ", outcome.code>>
                  [] outcome.kind \in ConnectionErrors ->
                       <<"Error: Cannot connect to Ollama. Make sure it's running on your system.">>
                  [] OTHER -> <<"Error: ", outcome.message>>
    IN [request |-> request, response |-> text]

\* get_ollama_response(prompt, messages, model) when the endpoint does outcome:
\* the request sent and the string returned
get_ollama_response(prompt, messages, model, outcome) ==
    LET request == [model |-> model, prompt |-> FullPrompt(prompt, messages),
                    stream |-> FALSE]
        text == CASE outcome.kind = "ok" ->
                       IF outcome.text # <<>> THEN outcome.text[1]
                       ELSE <<"No response generated">>
                  [] outcome.kind = "status" ->
                       <<"Error: Received status code ", outcome.code>>
                  [] outcome.kind \in ConnectionErrors ->
                       <<"Error: Cannot connect to Ollama. Make sure it's running on your system.">>
                  [] OTHER -> <<"Error: ", outcome.message>>
    IN [request |-> request, response |-> text]

-----------------------------------------------------------------------------
(* The session controller: main.py and chat_interface of components/chat.py *)

None == <<>>
Some(x) == <<x>>

\* config["credentials"]["usernames"]: the accounts, their display names and roles
Credentials ==
    {[username |-> "al", name |-> <<"A", "l">>, roles |-> {"admin"}],
     [username |-> "bo", name |-> <<"B", "o">>, roles |-> {}]}

\* is_admin = "admin" in user_roles, for the account logged in
IsAdmin(st) ==
    \E u \in Credentials : st.username = Some(u.username) /\ "admin" \in u.roles

\* the models the selectbox offers: default_models of get_available_ollama_models
AvailableModels == <<"llama3", "mistral">>

\* st.session_state.get(key), with a default for a missing key
Get(st, key, default) == IF key \in DOMAIN st THEN st[key] ELSE default

\* the keys clear_chat_session_state deletes
ClearedKeys == {"messages", "current_chat_id", "chat_history", "selected_model",
                "admin_view"}

\* clear_chat_session_state()
clear_chat_session_state(st) == DictDel(st, ClearedKeys)

\* chat_interface, "Initialize session state": a missing key gets its default;
\* then the selectbox sets selected_model to a model on offer
InitSessionState(st, user_name, coll) ==
    LET st1 == st @@ [messages |-> <<>>,
                      current_chat_id |-> None,
                      chat_history |-> mongo_load_all_chats(coll, user_name),
                      selected_model |-> "llama3",
                      show_command_dropdown |-> FALSE,
                      input_value |-> <<>>,
                      selected_command |-> None]
    IN [st1 EXCEPT !.selected_model =
            IF \E i \in 1..Len(AvailableModels) : AvailableModels[i] = @
            THEN @ ELSE AvailableModels[1]]

\* the chat display is rendered: neither admin view is open
ChatBranch(st) ==
    ~(IsAdmin(st) /\ Get(st, "admin_view", "None") \in {"knowledge", "prompts"})

\* a chat is active and its input is on the page
ChatActive(st) ==
    /\ st.authentication_status = "True"
    /\ ChatBranch(st)
    /\ st.current_chat_id # None

\* ResolveCommand without the strip() of the text after the command
ResolveCommandNoStrip(user_input, coll) ==
    IF StartsWith(user_input, "/")
    THEN LET command == SplitFirst(user_input)
             stored_prompt == get_prompt_by_command(coll, command)
         IN IF stored_prompt # None
            THEN IF Contains(user_input, " ")
                 THEN stored_prompt[1].content \o DropFirst(user_input, Len(command))
                 ELSE stored_prompt[1].content
            ELSE user_input
    ELSE user_input

\* ResolveCommand with an unknown command cut down to the command
ResolveCommandUnknownCut(user_input, coll) ==
    IF StartsWith(user_input, "/")
    THEN LET command == SplitFirst(user_input)
             stored_prompt == get_prompt_by_command(coll, command)
         IN IF stored_prompt # None
            THEN IF Contains(user_input, " ")
                 THEN stored_prompt[1].content \o <<" ">>
                      \o Strip(DropFirst(user_input, Len(command)))
                 ELSE stored_prompt[1].content
            ELSE command
    ELSE user_input

\* "Check if user input starts with a command": the prompt of user_input
ResolveCommand(user_input, coll) ==
    IF StartsWith(user_input, "/")
    THEN LET command == SplitFirst(user_input)
             stored_prompt == get_prompt_by_command(coll, command)
         IN IF stored_prompt # None
            THEN IF Contains(user_input, " ")
                 THEN stored_prompt[1].content \o <<" ">>
                      \o Strip(DropFirst(user_input, Len(command)))
                 ELSE stored_prompt[1].content
            ELSE user_input
    ELSE user_input

\* SubmitMessage with the chat saved before the assistant message is appended
SubmitMessageSavedEarly(st, coll, prompt, outcome, now) ==
    LET user_name == st.name[1]
        user_message == [role |-> "user", content |-> prompt,
                         timestamp |-> Timestamp(now), user |-> user_name]
        messages1 == Append(st.messages, user_message)
        r == get_ollama_response(prompt, messages1, st.selected_model, outcome)
        assistant_message == [role |-> "assistant", content |-> r.response,
                              timestamp |-> Timestamp(now),
                              user |-> <<"Assistant">>]
        messages2 == Append(messages1, assistant_message)
        chat_id == st.current_chat_id[1]
        chat_data == [messages |-> messages1, last_updated |-> Timestamp(now)]
    IN [st |-> [st EXCEPT !.messages = messages2,
                          !.chat_history = DictSet(@, chat_id, chat_data)],
        coll |-> mongo_save_chat(coll, user_name, chat_id, chat_data),
        request |-> r.request,
        response |-> r.response]

\* SubmitMessage with only the two new messages saved as the chat
SubmitMessageSavesTurn(st, coll, prompt, outcome, now) ==
    LET user_name == st.name[1]
        user_message == [role |-> "user", content |-> prompt,
                         timestamp |-> Timestamp(now), user |-> user_name]
        messages1 == Append(st.messages, user_message)
        r == get_ollama_response(prompt, messages1, st.selected_model, outcome)
        assistant_message == [role |-> "assistant", content |-> r.response,
                              timestamp |-> Timestamp(now),
                              user |-> <<"Assistant">>]
        messages2 == Append(messages1, assistant_message)
        chat_id == st.current_chat_id[1]
        chat_data == [messages |-> <<user_message, assistant_message>>,
                      last_updated |-> Timestamp(now)]
    IN [st |-> [st EXCEPT !.messages = messages2,
                          !.chat_history = DictSet(@, chat_id, chat_data)],
        coll |-> mongo_save_chat(coll, user_name, chat_id, chat_data),
        request |-> r.request,
        response |-> r.response]

\* "Process the message": append the user message, ask the model, append the
\* assistant message, update chat_history and save the chat
SubmitMessage(st, coll, prompt, outcome, now) ==
    LET user_name == st.name[1]
        user_message == [role |-> "user", content |-> prompt,
                         timestamp |-> Timestamp(now), user |-> user_name]
        messages1 == Append(st.messages, user_message)
        r == get_ollama_response(prompt, messages1, st.selected_model, outcome)
        assistant_message == [role |-> "assistant", content |-> r.response,
                              timestamp |-> Timestamp(now),
                              user |-> <<"Assistant">>]
        messages2 == Append(messages1, assistant_message)
        chat_id == st.current_chat_id[1]
        chat_data == [messages |-> messages2, last_updated |-> Timestamp(now)]
    IN [st |-> [st EXCEPT !.messages = messages2,
                          !.chat_history = DictSet(@, chat_id, chat_data)],
        coll |-> mongo_save_chat(coll, user_name, chat_id, chat_data),
        request |-> r.request,
        response |-> r.response]

\* str(uuid.uuid4()): the n-th identifier drawn
UuidPool == <<"c1", "c2", "c3", "c4", "c5", "c6">>

\* s.split(sep)[0]: s up to the first occurrence of sep
BeforeSep(s, sep) ==
    IF IsSubstring(sep, s)
    THEN SubSeq(s, 1, CHOOSE i \in 0..(Len(s) - Len(sep)) :
                          /\ SubSeq(s, i + 1, i + Len(sep)) = sep
                          /\ \A j \in 0..(i - 1) :
                                 SubSeq(s, j + 1, j + Len(sep)) # sep)
    ELSE s

\* an entry of command_options: f"{p['command']} - {p['title']}"
CommandOption(p) == p.command \o <<" ", "-", " ">> \o p.title

-----------------------------------------------------------------------------
(* One action per script run: main() with the event that started the run *)

\* last_call after a run that calls neither the resolver nor a store
NoCall == [op |-> "none"]

\* authenticator.login() accepts account u: the status changes, so main clears
\* the chat state, and chat_interface initialises it for u
Login(s, u) ==
    /\ ss[s].authentication_status # "True"
    /\ ss' = [ss EXCEPT ![s] =
                InitSessionState(
                    clear_chat_session_state(
                        [@ EXCEPT !.authentication_status = "True",
                                  !.name = Some(u.name),
                                  !.username = Some(u.username)]),
                    u.name, chats_collection)]
    /\ last_call' = NoCall
    /\ UNCHANGED <<chats_collection, prompts_collection, files, next_uuid, clock>>

\* authenticator.login() rejects the credentials: None becomes False
LoginFailed(s) ==
    /\ ss[s].authentication_status = "None"
    /\ ss' = [ss EXCEPT ![s] =
                clear_chat_session_state([@ EXCEPT !.authentication_status = "False"])]
    /\ last_call' = NoCall
    /\ UNCHANGED <<chats_collection, prompts_collection, files, next_uuid, clock>>

\* the Logout button, handled by authenticator.logout() in the authenticated
\* branch of main, after the status check of that run; chat_interface then
\* runs with every key present
Logout(s) ==
    /\ ss[s].authentication_status = "True"
    /\ ss' = [ss EXCEPT ![s] = [@ EXCEPT !.authentication_status = "None",
                                         !.name = None,
                                         !.username = None]]
    /\ last_call' = NoCall
    /\ UNCHANGED <<chats_collection, prompts_collection, files, next_uuid, clock>>

\* the "New Chat" button
NewChat(s) ==
    /\ ss[s].authentication_status = "True"
    /\ next_uuid < MaxChats
    /\ next_uuid' = next_uuid + 1
    /\ ss' = [ss EXCEPT ![s] = [@ EXCEPT !.current_chat_id = Some(UuidPool[next_uuid + 1]),
                                         !.messages = <<>>]]
    /\ last_call' = NoCall
    /\ UNCHANGED <<chats_collection, prompts_collection, files, clock>>

\* a chat title of the sidebar: only a chat with a user message has one
SelectHistory(s, chat_id) ==
    /\ ss[s].authentication_status = "True"
    /\ chat_id \in DOMAIN ss[s].chat_history
    /\ \E i \in 1..Len(ss[s].chat_history[chat_id].messages) :
           ss[s].chat_history[chat_id].messages[i].role = "user"
    /\ ss' = [ss EXCEPT ![s] = [@ EXCEPT !.current_chat_id = Some(chat_id),
                                         !.messages = ss[s].chat_history[chat_id].messages]]
    /\ last_call' = NoCall
    /\ UNCHANGED <<chats_collection, prompts_collection, files, next_uuid, clock>>

\* the "Select Model" selectbox
SelectModel(s, i) ==
    /\ ss[s].authentication_status = "True"
    /\ ss[s].selected_model # AvailableModels[i]
    /\ ss' = [ss EXCEPT ![s] = [@ EXCEPT !.selected_model = AvailableModels[i]]]
    /\ last_call' = NoCall
    /\ UNCHANGED <<chats_collection, prompts_collection, files, next_uuid, clock>>

\* the "Knowledge" and "Prompts" buttons of the admin workspace
AdminOpen(s, view) ==
    /\ ss[s].authentication_status = "True"
    /\ IsAdmin(ss[s])
    /\ ss' = [ss EXCEPT ![s] = DictSet(@, "admin_view", view)]
    /\ last_call' = NoCall
    /\ UNCHANGED <<chats_collection, prompts_collection, files, next_uuid, clock>>

\* "Back to Chat" of either admin view
BackToChat(s) ==
    /\ ss[s].authentication_status = "True"
    /\ ~ChatBranch(ss[s])
    /\ ss' = [ss EXCEPT ![s] = [@ EXCEPT !.admin_view = "None"]]
    /\ last_call' = NoCall
    /\ UNCHANGED <<chats_collection, prompts_collection, files, next_uuid, clock>>

\* text entered in st.chat_input: a bare "/" opens the command dropdown and
\* reruns; anything else is resolved and processed as a message
ChatInput(s, user_input, outcome) ==
    /\ ChatActive(ss[s])
    /\ user_input # <<>>
    /\ IF user_input = <<"/">>
       THEN /\ ss' = [ss EXCEPT ![s] = [@ EXCEPT !.show_command_dropdown = TRUE,
                                                 !.input_value = user_input]]
            /\ last_call' = [op |-> "chat_input", session |-> s,
                             user_input |-> user_input, submitted |-> FALSE]
            /\ UNCHANGED chats_collection
       ELSE LET prompt == ResolveCommand(user_input, prompts_collection)
                r == SubmitMessage([ss[s] EXCEPT !.show_command_dropdown = FALSE],
                                   chats_collection, prompt, outcome, clock)
            IN /\ Len(ss[s].messages) < 2 * MaxSubmits
               /\ StoredMessages(chats_collection)
                     < 2 * MaxSubmits * Cardinality(DOMAIN ss)
               /\ ss' = [ss EXCEPT ![s] = r.st]
               /\ chats_collection' = r.coll
               /\ last_call' = [op |-> "chat_input", session |-> s,
                                user_input |-> user_input, submitted |-> TRUE,
                                prompt |-> prompt, outcome |-> outcome,
                                request |-> r.request,
                                response |-> r.response]
    /\ UNCHANGED <<prompts_collection, files, next_uuid, clock>>

\* "Use Command" on the i-th option of the dropdown: the content of the command
\* becomes selected_command, and the rerun processes it as a message if it
\* is truthy
UseCommand(s, i, outcome) ==
    /\ ChatActive(ss[s])
    /\ ss[s].show_command_dropdown
    /\ i \in 1..Len(get_all_prompts(prompts_collection))
    /\ LET selected == CommandOption(get_all_prompts(prompts_collection)[i])
           selected_command == BeforeSep(selected, <<" ", "-", " ">>)
           stored_prompt == get_prompt_by_command(prompts_collection, selected_command)
       IN /\ stored_prompt # None
          /\ IF stored_prompt[1].content # <<>>
             THEN LET r == SubmitMessage(
                              [ss[s] EXCEPT !.show_command_dropdown = FALSE,
                                            !.selected_command = None],
                              chats_collection, stored_prompt[1].content,
                              outcome, clock)
                  IN /\ Len(ss[s].messages) < 2 * MaxSubmits
                     /\ StoredMessages(chats_collection)
                           < 2 * MaxSubmits * Cardinality(DOMAIN ss)
                     /\ ss' = [ss EXCEPT ![s] = r.st]
                     /\ chats_collection' = r.coll
                     /\ last_call' = [op |-> "use_command", session |-> s,
                                      command |-> selected_command,
                                      submitted |-> TRUE,
                                      prompt |-> stored_prompt[1].content,
                                      outcome |-> outcome,
                                      request |-> r.request,
                                      response |-> r.response]
             ELSE /\ ss' = [ss EXCEPT ![s] =
                               [@ EXCEPT !.show_command_dropdown = FALSE,
                                         !.selected_command =
                                             Some(stored_prompt[1].content)]]
                  /\ last_call' = [op |-> "use_command", session |-> s,
                                   command |-> selected_command,
                                   submitted |-> FALSE]
                  /\ UNCHANGED chats_collection
    /\ UNCHANGED <<prompts_collection, files, next_uuid, clock>>

-----------------------------------------------------------------------------
(* The application: one browser session, the MongoDB stores *)

\* st.session_state of a new browser session, as the authenticator sets it up
FreshSession == [authentication_status |-> "None", name |-> None, username |-> None]

\* prompt libraries an admin has built before the run: save_prompt of "G", and
\* an import of a template with an empty title and an empty content
DocG == [title |-> <<"G">>, command |-> <<"/", "g">>, content |-> <<"N", ":">>,
         last_updated |-> Timestamp(0)]
DocEmpty == [title |-> <<>>, command |-> <<"/">>, content |-> <<>>,
             last_updated |-> Timestamp(0)]
LibrarySeeds == {<<DocG>>, <<DocG, DocEmpty>>}

\* what the user types in the chat input
SessionInputs == {<<"/">>, <<"g">>, <<"/", "g">>, <<"/", "g", " ", "x">>}

\* what the endpoint does in the runs of the application
SessionOutcomes == {o \in EndpointOutcomes : o.kind = "ok" /\ o.text # <<>>}

Init ==
    /\ ss = [s \in {1} |-> FreshSession]
    /\ chats_collection = <<>>
    /\ prompts_collection \in LibrarySeeds
    /\ files = <<>>
    /\ next_uuid = 0
    /\ clock = 0
    /\ last_call = NoCall

Next ==
    \/ \E s \in DOMAIN ss, u \in Credentials : Login(s, u)
    \/ \E s \in DOMAIN ss : LoginFailed(s)
    \/ \E s \in DOMAIN ss : Logout(s)
    \/ \E s \in DOMAIN ss : NewChat(s)
    \/ \E s \in DOMAIN ss, c \in {UuidPool[i] : i \in 1..Len(UuidPool)} :
          SelectHistory(s, c)
    \/ \E s \in DOMAIN ss, i \in 1..Len(AvailableModels) : SelectModel(s, i)
    \/ \E s \in DOMAIN ss, view \in {"knowledge", "prompts"} : AdminOpen(s, view)
    \/ \E s \in DOMAIN ss : BackToChat(s)
    \/ \E s \in DOMAIN ss, user_input \in SessionInputs, o \in SessionOutcomes :
          ChatInput(s, user_input, o)
    \/ \E s \in DOMAIN ss, i \in 1..MaxPrompts, o \in SessionOutcomes :
          UseCommand(s, i, o)

Spec == Init /\ [][Next]_vars

-----------------------------------------------------------------------------
(* C1: the message submit *)

\* the step is a run of session s that processed a message
SubmittedBy(s) ==
    /\ last_call'.op \in {"chat_input", "use_command"}
    /\ last_call'.session = s
    /\ last_call'.submitted

\* what a processed message does to session s: the log grows by the user
\* message holding prompt and the assistant message holding the response, the
\* model was asked in between, and the chat stored under the active chat id
\* is that log
SubmitEffect(s, prompt) ==
    /\ ChatActive(ss[s])
    /\ ss'[s].current_chat_id = ss[s].current_chat_id
    /\ Len(ss'[s].messages) = Len(ss[s].messages) + 2
    /\ SubSeq(ss'[s].messages, 1, Len(ss[s].messages)) = ss[s].messages
    /\ LET user_message == ss'[s].messages[Len(ss[s].messages) + 1]
           assistant_message == ss'[s].messages[Len(ss[s].messages) + 2]
       IN /\ user_message.role = "user"
          /\ user_message.content = prompt
          /\ last_call'.request.prompt =
                 FullPrompt(prompt, Append(ss[s].messages, user_message))
          /\ assistant_message.role = "assistant"
          /\ assistant_message.content = last_call'.response
    /\ MatchingChats(chats_collection', get_safe_username(ss[s].name[1]),
                     ss[s].current_chat_id[1]) # {}
    /\ mongo_load_chat(chats_collection', ss[s].name[1],
                       ss[s].current_chat_id[1], clock).messages = ss'[s].messages

\* the step neither appends to the log of session s nor stores a chat
NoSubmit(s) ==
    /\ chats_collection' = chats_collection
    /\ "messages" \in DOMAIN ss[s] => ss'[s].messages = ss[s].messages

\* C1 as stated: every non-empty chat input and every command picked from the
\* dropdown, with a chat active, resolves the command, appends one user
\* message, calls the completion client, appends one assistant message and
\* stores the log under the active chat id
C1_EveryInputIsSubmitted ==
    [][\A s \in DOMAIN ss :
          /\ (last_call'.op = "chat_input" /\ last_call'.session = s)
                => SubmitEffect(s, ResolveCommand(last_call'.user_input,
                                                  prompts_collection))
          /\ (last_call'.op = "use_command" /\ last_call'.session = s)
                => SubmitEffect(s, get_prompt_by_command(
                                       prompts_collection,
                                       last_call'.command)[1].content)]_vars

\* C1 as amended: a chat input other than the bare "/" and a picked command
\* with a non-empty content do all of that, in that order; the bare "/" only
\* opens the dropdown and a picked command with an empty content only closes
\* it; a run of a session with no active chat appends no message, and nothing
\* but a processed message stores a chat
C1_SubmitAppendsAndPersists ==
    [][\A s \in DOMAIN ss :
          /\ (last_call'.op = "chat_input" /\ last_call'.session = s)
                => IF last_call'.user_input = <<"/">>
                   THEN NoSubmit(s) /\ ss'[s].show_command_dropdown
                   ELSE SubmitEffect(s, ResolveCommand(last_call'.user_input,
                                                       prompts_collection))
          /\ (last_call'.op = "use_command" /\ last_call'.session = s)
                => LET content == get_prompt_by_command(
                                      prompts_collection,
                                      last_call'.command)[1].content
                   IN IF content = <<>>
                      THEN NoSubmit(s) /\ ~ss'[s].show_command_dropdown
                      ELSE SubmitEffect(s, content)
          /\ chats_collection' # chats_collection
                => \E t \in DOMAIN ss : SubmittedBy(t)
          /\ ("messages" \in DOMAIN ss[s] /\ ~ChatActive(ss[s]))
                => \/ "messages" \notin DOMAIN ss'[s]
                   \/ ss'[s].messages = ss[s].messages
                   \/ ss'[s].messages = <<>>
                   \/ /\ ss'[s].current_chat_id # None
                      /\ ss'[s].messages =
                            ss[s].chat_history[ss'[s].current_chat_id[1]].messages]_vars

\* a second message of a chat, typed as a command with trailing text, has been
\* processed and stored
C1_Witness ==
    \E s \in DOMAIN ss :
        /\ last_call.op = "chat_input"
        /\ last_call.session = s
        /\ last_call.submitted
        /\ last_call.prompt # last_call.user_input
        /\ Len(ss[s].messages) = 4
        /\ mongo_load_chat(chats_collection, ss[s].name[1],
                           ss[s].current_chat_id[1], clock).messages = ss[s].messages

-----------------------------------------------------------------------------
(* C2: the session state across a change of the authentication status *)

\* the session state holds nothing of an earlier identity: no log, no active
\* chat, no selected model but the default, no pending command flag, and no
\* history cache but the stored chats of the identity now logged in
SessionStateCleared(st, coll) ==
    /\ Get(st, "messages", <<>>) = <<>>
    /\ Get(st, "current_chat_id", None) = None
    /\ "chat_history" \in DOMAIN st
          => \/ st.chat_history = <<>>
             \/ /\ st.name # None
                /\ st.chat_history = mongo_load_all_chats(coll, st.name[1])
    /\ Get(st, "selected_model", "llama3") = "llama3"
    /\ Get(st, "admin_view", "None") = "None"
    /\ Get(st, "show_command_dropdown", FALSE) = FALSE
    /\ Get(st, "input_value", <<>>) = <<>>
    /\ Get(st, "selected_command", None) = None

\* C2 as stated: whenever the authentication status of a session changes, by
\* a login or a logout, its session state is cleared: the message log, the
\* active chat id, the history cache, the selected model and the pending
\* command flags
C2_AuthChangeClearsSession ==
    [][\A s \in DOMAIN ss :
          ss'[s].authentication_status # ss[s].authentication_status
            => SessionStateCleared(ss'[s], chats_collection')]_vars

\* C2 for a login: when a login changes the authentication status, the
\* session state is cleared, the history cache, the selected model and the
\* pending command flags (show_command_dropdown, input_value,
\* selected_command) included, so that nothing set under one identity is
\* observable after another identity logs in
C2_LoginClearsSession ==
    [][\A s \in DOMAIN ss :
          (ss'[s].authentication_status # ss[s].authentication_status
           /\ ss'[s].authentication_status = "True")
            => SessionStateCleared(ss'[s], chats_collection')]_vars

\* what does hold at a login: the five keys of clear_chat_session_state are
\* those of a new session
LoginClearsChatKeys ==
    [][\A s \in DOMAIN ss :
          (ss'[s].authentication_status # ss[s].authentication_status
           /\ ss'[s].authentication_status = "True")
            => /\ ss'[s].messages = <<>>
               /\ ss'[s].current_chat_id = None
               /\ ss'[s].chat_history =
                     mongo_load_all_chats(chats_collection', ss'[s].name[1])
               /\ ss'[s].selected_model = "llama3"
               /\ "admin_view" \notin DOMAIN ss'[s]]_vars

\* selected_command is never left truthy by a run: the rerun of "Use Command"
\* processes it
NoPendingCommand ==
    \A s \in DOMAIN ss :
        "selected_command" \in DOMAIN ss[s]
          => ss[s].selected_command \in {None, Some(<<>>)}

-----------------------------------------------------------------------------
(* The command resolver on every short input: one message typed into a new *)
(* chat, for each prompt library                                           *)

\* the characters typed: the slash, the space, a tab and a letter
InputChars == {"/", " ", "\t", "g"}

\* the session of the admin after a login and "New Chat"
ActiveSession ==
    LET u == CHOOSE u \in Credentials : u.username = "al"
    IN [InitSessionState(
            clear_chat_session_state(
                [FreshSession EXCEPT !.authentication_status = "True",
                                     !.name = Some(u.name),
                                     !.username = Some(u.username)]),
            u.name, <<>>)
        EXCEPT !.current_chat_id = Some(UuidPool[1])]

InitResolve ==
    /\ ss = [s \in {1} |-> ActiveSession]
    /\ chats_collection = <<>>
    /\ prompts_collection \in {<<>>, <<DocG>>, <<DocG, DocEmpty>>}
    /\ files = <<>>
    /\ next_uuid = 1
    /\ clock = 0
    /\ last_call = NoCall

NextResolve ==
    \E user_input \in StringsUpTo(InputChars, MaxInputLen), o \in SessionOutcomes :
        /\ ss[1].messages = <<>>
        /\ ChatInput(1, user_input, o)

SpecResolve == InitResolve /\ [][NextResolve]_vars

\* the command of an input: the input up to its first space
CommandOf(input) ==
    IF \E i \in 1..Len(input) : input[i] = " "
    THEN SubSeq(input, 1, (CHOOSE i \in 1..Len(input) :
                   input[i] = " " /\ \A j \in 1..(i - 1) : input[j] # " ") - 1)
    ELSE input

\* the text of an input after its first space
TrailingText(input) ==
    IF \E i \in 1..Len(input) : input[i] = " "
    THEN SubSeq(input, Len(CommandOf(input)) + 2, Len(input))
    ELSE <<>>

\* the templates of the library with the command of the input
TemplatesFor(input) ==
    {prompts_collection[i].content :
        i \in {j \in 1..Len(prompts_collection) :
                  prompts_collection[j].command = CommandOf(input)}}

\* the chat input of the last run was this input, and it starts with "/"
TypedCommand(input) ==
    /\ last_call.op = "chat_input"
    /\ last_call.user_input = input
    /\ Len(input) > 0
    /\ input[1] = "/"

\* the content of the user message the last run appended to the log
SubmittedText == ss[last_call.session].messages[Len(ss[last_call.session].messages) - 1].content

\* C5: an input that starts with "/", whose command is in the library and
\* that has text after its first space, is submitted as the content of the
\* template, a space, and that text trimmed
C5_CommandWithTrailingText ==
    \A input \in StringsUpTo(InputChars, MaxInputLen) :
        (TypedCommand(input) /\ TemplatesFor(input) # {}
         /\ TrailingText(input) # <<>>)
          => /\ last_call.submitted
             /\ \E content \in TemplatesFor(input) :
                    SubmittedText = content \o <<" ">> \o Strip(TrailingText(input))

\* "/g  g" has been typed with the template of /g in the library: the text
\* after the first space is trimmed
C5_Witness ==
    /\ TypedCommand(<<"/", "g", " ", " ", "g">>)
    /\ TemplatesFor(<<"/", "g", " ", " ", "g">>) = {<<"N", ":">>}
    /\ SubmittedText = <<"N", ":", " ", "g">>

\* C6: an input that starts with "/", whose command is in the library and
\* that has no text after the command, or only whitespace, is submitted as
\* the content of the template, with nothing appended
C6_CommandWithoutTrailingText ==
    \A input \in StringsUpTo(InputChars, MaxInputLen) :
        (TypedCommand(input) /\ TemplatesFor(input) # {}
         /\ Strip(TrailingText(input)) = <<>>
         /\ input # <<"/">>)
          => /\ last_call.submitted
             /\ SubmittedText \in TemplatesFor(input)

\* the part of C6 that holds: with no space in the input, the content alone
C6_CommandAlone ==
    \A input \in StringsUpTo(InputChars, MaxInputLen) :
        (TypedCommand(input) /\ TemplatesFor(input) # {}
         /\ ~(\E i \in 1..Len(input) : input[i] = " ")
         /\ input # <<"/">>)
          => /\ last_call.submitted
             /\ SubmittedText \in TemplatesFor(input)

\* the input of the last run is literal text: it does not start with "/", or
\* its command is not in the library
LiteralInput(input) ==
    /\ last_call.op = "chat_input"
    /\ last_call.user_input = input
    /\ Len(input) > 0
    /\ input[1] # "/" \/ TemplatesFor(input) = {}

\* C7 as stated: an input that does not start with "/", or whose command is
\* not in the library, the bare "/" included, is submitted unchanged
C7_LiteralTextUnchanged ==
    \A input \in StringsUpTo(InputChars, MaxInputLen) :
        LiteralInput(input)
          => last_call.submitted /\ SubmittedText = input

\* C7 as amended: such an input other than the bare "/" is submitted
\* unchanged; the bare "/" is not submitted, it opens the command dropdown
C7_LiteralTextUnchangedButSlash ==
    \A input \in StringsUpTo(InputChars, MaxInputLen) :
        LiteralInput(input)
          => IF input = <<"/">>
             THEN /\ ~last_call.submitted
                  /\ ss[last_call.session].messages = <<>>
                  /\ ss[last_call.session].show_command_dropdown
             ELSE last_call.submitted /\ SubmittedText = input

\* "/gg g" has been typed with only /g in the library, and submitted as it is
C7_Witness ==
    /\ LiteralInput(<<"/", "g", "g", " ", "g">>)
    /\ prompts_collection = <<DocG>>
    /\ last_call.submitted
    /\ SubmittedText = <<"/", "g", "g", " ", "g">>

-----------------------------------------------------------------------------
(* The prompt management view of an admin: components/chat.py, tabs 1 to 3 *)

\* the "Prompt Management" view is on the page of session s
PromptsView(s) ==
    /\ ss[s].authentication_status = "True"
    /\ IsAdmin(ss[s])
    /\ Get(ss[s], "admin_view", "None") = "prompts"

\* "Save Prompt" of the create form: saved only with a title and a content
PromptFormSubmit(s, title, content) ==
    /\ PromptsView(s)
    /\ IF title # <<>> /\ content # <<>>
       THEN prompts_collection' = save_prompt(prompts_collection, title, content, clock)
       ELSE UNCHANGED prompts_collection
    /\ last_call' = [op |-> "save_prompt_form", session |-> s, title |-> title,
                     content |-> content,
                     saved |-> (title # <<>> /\ content # <<>>),
                     matched |-> MatchingPrompts(prompts_collection,
                                                 DeriveCommand(title)) # {}]
    /\ UNCHANGED <<ss, chats_collection, files, next_uuid, clock>>

\* "Delete" of the i-th prompt of the "View Prompts" tab
DeletePromptClick(s, i) ==
    /\ PromptsView(s)
    /\ i \in 1..Len(get_all_prompts(prompts_collection))
    /\ prompts_collection' =
          delete_prompt(prompts_collection, get_all_prompts(prompts_collection)[i].command)
    /\ last_call' = [op |-> "delete_prompt", session |-> s,
                     command |-> get_all_prompts(prompts_collection)[i].command]
    /\ UNCHANGED <<ss, chats_collection, files, next_uuid, clock>>

\* a file uploaded in the "Import/Export" tab: the count is shown as a
\* success, an exception as an error
ImportUpload(s, json_str) ==
    /\ PromptsView(s)
    /\ LET r == import_prompts_from_json(prompts_collection, json_str, clock)
       IN /\ prompts_collection' = r.coll
          /\ last_call' = [op |-> "import", session |-> s, json_str |-> json_str,
                           raised |-> r.raised, ret |-> r.ret,
                           shown |-> IF r.raised = "" THEN "success" ELSE "error"]
    /\ UNCHANGED <<ss, chats_collection, files, next_uuid, clock>>

\* the file downloaded with "Export Prompts to JSON", uploaded again
ImportExported(s) ==
    ImportUpload(s, export_prompts_to_json(prompts_collection))

\* the titles and the contents typed in the form
FormTitles == {<<>>, <<"G">>, <<"g">>, <<"G", " ">>}
FormContents == {<<>>, <<"N", ":">>, <<"M">>}

\* the entries of an uploaded array
TplG == JObj([k \in {KeyTitle, KeyContent} |->
                 IF k = KeyTitle THEN JStr(<<"G">>) ELSE JStr(<<"N", ":">>)])
TplLowerG == JObj([k \in {KeyTitle, KeyContent} |->
                      IF k = KeyTitle THEN JStr(<<"g">>) ELSE JStr(<<"M">>)])
TplEmpty == JObj([k \in {KeyTitle, KeyContent} |-> JStr(<<>>)])
TplTitleOnly == JObj([k \in {KeyTitle} |-> JStr(<<"G">>)])
TplTitleNull == JObj([k \in {KeyTitle, KeyContent} |->
                         IF k = KeyTitle THEN JNull ELSE JStr(<<"M">>)])
PayloadEntries == {TplG, TplLowerG, TplEmpty, TplTitleOnly, TplTitleNull,
                   JNum(5), JStr(<<"g">>)}

\* the uploaded files: text that is no JSON, JSON values that are no array,
\* and the arrays of at most MaxPayloadLen entries
Payloads ==
    {InvalidJson, JsonText(JNull), JsonText(JNum(5)), JsonText(JStr(<<"g", "g">>)),
     JsonText(TplG)}
    \cup {JsonText(JArr(xs)) : xs \in StringsUpTo(PayloadEntries, MaxPayloadLen)}

\* the session of the admin after a login and "Prompts"
PromptsSession ==
    DictSet([ActiveSession EXCEPT !.current_chat_id = None], "admin_view", "prompts")

InitPrompts ==
    /\ ss = [s \in {1} |-> PromptsSession]
    /\ chats_collection = <<>>
    /\ prompts_collection = <<>>
    /\ files = <<>>
    /\ next_uuid = 0
    /\ clock = 0
    /\ last_call = NoCall

NextPrompts ==
    \/ \E title \in FormTitles, content \in FormContents :
          PromptFormSubmit(1, title, content)
    \/ \E i \in 1..MaxPrompts : DeletePromptClick(1, i)
    \/ \E json_str \in Payloads : ImportUpload(1, json_str)
    \/ ImportExported(1)

SpecPrompts == InitPrompts /\ [][NextPrompts]_vars

-----------------------------------------------------------------------------
(* C4, C8, C9, C10: the prompt library *)

\* no two entries of the library share a command
UniqueCommands ==
    \A i, j \in 1..Len(prompts_collection) :
        prompts_collection[i].command = prompts_collection[j].command => i = j

\* the command of a title, as the spec words it: "/", then the title in
\* lower case with every space a hyphen
CommandOfTitle(title) ==
    <<"/">> \o [i \in 1..Len(title) |->
                  IF title[i] = " " THEN "-"
                  ELSE IF title[i] = "G" THEN "g" ELSE title[i]]

\* the contents getByCommand can return for a command
ContentsOf(coll, command) ==
    {coll[i].content : i \in {j \in 1..Len(coll) : coll[j].command = command}}

\* C4: after any sequence of save, import and delete no two entries of the
\* library share a command, and a save of a title whose command is stored
\* overwrites that entry: getAll() keeps its length and getByCommand returns
\* the content just saved (a save of a new command adds one entry)
C4_UniqueCommandsAndOverwrite ==
    /\ []UniqueCommands
    /\ [][(last_call'.op = "save_prompt_form" /\ last_call'.saved)
            => LET command == CommandOfTitle(last_call'.title)
               IN /\ Len(get_all_prompts(prompts_collection')) =
                        IF ContentsOf(prompts_collection, command) # {}
                        THEN Len(get_all_prompts(prompts_collection))
                        ELSE Len(get_all_prompts(prompts_collection)) + 1
                  /\ get_prompt_by_command(prompts_collection', command) # None
                  /\ get_prompt_by_command(prompts_collection', command)[1].content
                        = last_call'.content
                  /\ ContentsOf(prompts_collection', command) = {last_call'.content}
           ]_vars

\* the title "g" has been saved over the entry of /g, which "G" had made,
\* beside another entry
C4_Witness ==
    /\ last_call.op = "save_prompt_form"
    /\ last_call.saved
    /\ last_call.matched
    /\ last_call.title = <<"g">>
    /\ Len(prompts_collection) = 2
    /\ \E i \in 1..Len(prompts_collection) :
          /\ prompts_collection[i].command = <<"/", "g">>
          /\ prompts_collection[i].title = <<"g">>
          /\ prompts_collection[i].content = last_call.content

\* the entries of an array that are objects with a title and a content
ImportableEntries(xs) ==
    {i \in 1..Len(xs) :
        /\ xs[i].t = "obj"
        /\ KeyTitle \in DOMAIN xs[i].obj
        /\ KeyContent \in DOMAIN xs[i].obj}

\* the uploaded text is the JSON text of an array
IsArrayText(json_str) == json_str.valid /\ json_str.value.t = "arr"

\* C8: for a JSON array, the count importAll returns is the number of entries
\* that are objects with both a title and a content; the other entries are
\* not counted
C8_ImportCountsImported ==
    (last_call.op = "import" /\ IsArrayText(last_call.json_str)
     /\ last_call.raised = "")
      => last_call.ret = <<Cardinality(ImportableEntries(last_call.json_str.value.arr))>>

\* the uploaded text is malformed: no JSON, or JSON that is no array of objects
Malformed(json_str) ==
    \/ ~json_str.valid
    \/ json_str.value.t # "arr"
    \/ \E i \in 1..Len(json_str.value.arr) : json_str.value.arr[i].t # "obj"

\* C9: for every malformed payload importAll returns 0, raises nothing to its
\* caller and leaves the library as it was
C9_MalformedImportIsZero ==
    [][(last_call'.op = "import" /\ Malformed(last_call'.json_str))
         => /\ last_call'.raised = ""
            /\ last_call'.ret = <<0>>
            /\ prompts_collection' = prompts_collection]_vars

\* the part of C9 the code keeps: text that is no JSON gives 0, no exception,
\* and the library as it was
C9_InvalidJsonIsZero ==
    [][(last_call'.op = "import" /\ ~last_call'.json_str.valid)
         => /\ last_call'.raised = ""
            /\ last_call'.ret = <<0>>
            /\ prompts_collection' = prompts_collection]_vars

\* C10: no template with an empty title or an empty content is ever stored,
\* whether it comes from the admin form or from an import
C10_NoEmptyTemplateStored ==
    \A i \in 1..Len(prompts_collection) :
        /\ prompts_collection[i].title # <<>>
        /\ prompts_collection[i].content # <<>>

\* the part of C10 the code keeps: the admin form saves nothing without a
\* title and a content
C10_FormRejectsEmpty ==
    [][(last_call'.op = "save_prompt_form"
        /\ (last_call'.title = <<>> \/ last_call'.content = <<>>))
         => prompts_collection' = prompts_collection]_vars

-----------------------------------------------------------------------------
(* The two chat stores, called directly: each call takes one unit of time *)

\* display names: two that differ in case only, and another
StoreUsers == {<<"A", " ", "l">>, <<"a", " ", "l">>, <<"B", "o">>}
StoreChatIds == {UuidPool[1], UuidPool[2]}

\* the message logs saved
StoreLogs ==
    {<<>>,
     <<[role |-> "user", content |-> <<"g">>, timestamp |-> Timestamp(0),
        user |-> <<"B", "o">>]>>}

MongoSaveChat(user_name, chat_id, messages) ==
    /\ clock < MaxClock
    /\ clock' = clock + 1
    /\ chats_collection' =
          mongo_save_chat(chats_collection, user_name, chat_id,
                          [messages |-> messages, last_updated |-> Timestamp(clock)])
    /\ last_call' = [op |-> "mongo_save_chat", user_name |-> user_name,
                     chat_id |-> chat_id,
                     chat_data |-> [messages |-> messages,
                                    last_updated |-> Timestamp(clock)]]
    /\ UNCHANGED <<ss, prompts_collection, files, next_uuid>>

FileSaveChat(user_name, chat_id, messages) ==
    /\ clock < MaxClock
    /\ clock' = clock + 1
    /\ files' = file_save_chat(files, user_name, chat_id,
                               [messages |-> messages,
                                last_updated |-> Timestamp(clock)])
    /\ last_call' = [op |-> "file_save_chat", user_name |-> user_name,
                     chat_id |-> chat_id,
                     chat_data |-> [messages |-> messages,
                                    last_updated |-> Timestamp(clock)]]
    /\ UNCHANGED <<ss, chats_collection, prompts_collection, next_uuid>>

MongoLoadChat(user_name, chat_id) ==
    /\ last_call' = [op |-> "mongo_load_chat", user_name |-> user_name,
                     chat_id |-> chat_id,
                     ret |-> mongo_load_chat(chats_collection, user_name, chat_id, clock)]
    /\ UNCHANGED <<ss, chats_collection, prompts_collection, files, next_uuid, clock>>

FileLoadChat(user_name, chat_id) ==
    /\ last_call' = [op |-> "file_load_chat", user_name |-> user_name,
                     chat_id |-> chat_id,
                     ret |-> file_load_chat(files, user_name, chat_id, clock)]
    /\ UNCHANGED <<ss, chats_collection, prompts_collection, files, next_uuid, clock>>

InitStore ==
    /\ ss = [s \in {1} |-> FreshSession]
    /\ chats_collection = <<>>
    /\ prompts_collection = <<>>
    /\ files = <<>>
    /\ next_uuid = 0
    /\ clock = 0
    /\ last_call = NoCall

NextStore ==
    \/ \E u \in StoreUsers, c \in StoreChatIds, m \in StoreLogs : MongoSaveChat(u, c, m)
    \/ \E u \in StoreUsers, c \in StoreChatIds, m \in StoreLogs : FileSaveChat(u, c, m)
    \/ \E u \in StoreUsers, c \in StoreChatIds : MongoLoadChat(u, c)
    \/ \E u \in StoreUsers, c \in StoreChatIds : FileLoadChat(u, c)

SpecStore == InitStore /\ [][NextStore]_vars

-----------------------------------------------------------------------------
(* C3: saveChat changes one stored session only *)

\* the storage key of a user name: lower case, every space an underscore
NormalKey(user_name) ==
    [i \in 1..Len(user_name) |->
        CASE user_name[i] = " " -> "_"
          [] user_name[i] = "A" -> "a"
          [] user_name[i] = "B" -> "b"
          [] OTHER -> user_name[i]]

\* the sessions the document store holds for a key and a chat id
MongoStored(coll, key, chat_id) ==
    {[messages |-> coll[i].messages, last_updated |-> coll[i].last_updated] :
        i \in {j \in 1..Len(coll) :
                  coll[j].user_name = key /\ coll[j].chat_id = chat_id}}

\* the sessions the file store holds for a key and a chat id
FileStored(fs, key, chat_id) ==
    {fs[path].chats[chat_id] :
        path \in {q \in DOMAIN fs :
                     /\ q = key \o <<"_chats.json">>
                     /\ fs[q].valid
                     /\ chat_id \in DOMAIN fs[q].chats}}

StoreKeys == {NormalKey(u) : u \in StoreUsers}

\* C3: save_chat(user, chat id, data), of the document store and of the file
\* store, makes data the one session stored for the normalized user and the
\* chat id, and leaves every other chat id of that user and every session of
\* every other normalized user as it was
C3_SaveChatFrame ==
    [][/\ last_call'.op = "mongo_save_chat"
          => \A key \in StoreKeys, c \in StoreChatIds :
                MongoStored(chats_collection', key, c) =
                   IF key = NormalKey(last_call'.user_name) /\ c = last_call'.chat_id
                   THEN {last_call'.chat_data}
                   ELSE MongoStored(chats_collection, key, c)
       /\ last_call'.op = "file_save_chat"
          => \A key \in StoreKeys, c \in StoreChatIds :
                FileStored(files', key, c) =
                   IF key = NormalKey(last_call'.user_name) /\ c = last_call'.chat_id
                   THEN {last_call'.chat_data}
                   ELSE FileStored(files, key, c)
      ]_vars

\* the document store holds a chat of "bo" and one of "a_l" under the same
\* chat id, and the last call saved that chat of "A l" again
C3_Witness ==
    /\ last_call.op = "mongo_save_chat"
    /\ last_call.user_name = <<"A", " ", "l">>
    /\ Len(chats_collection) = 2
    /\ MongoStored(chats_collection, <<"b", "o">>, last_call.chat_id) # {}
    /\ MongoStored(chats_collection, <<"a", "_", "l">>, last_call.chat_id)
          = {last_call.chat_data}
    /\ last_call.chat_data.last_updated = Timestamp(2)

-----------------------------------------------------------------------------
(* The completion client under every outcome of the endpoint: messages     *)
(* typed and commands picked in one chat of the admin                      *)

\* what the user types in the runs of the client
ClientInputs == {<<"/">>, <<"g">>, <<"/", "g", " ", "x">>}

InitClient ==
    /\ ss = [s \in {1} |-> ActiveSession]
    /\ chats_collection = <<>>
    /\ prompts_collection = <<DocG>>
    /\ files = <<>>
    /\ next_uuid = 1
    /\ clock = 0
    /\ last_call = NoCall

NextClient ==
    \/ \E user_input \in ClientInputs, o \in EndpointOutcomes :
          ChatInput(1, user_input, o)
    \/ \E i \in 1..MaxPrompts, o \in EndpointOutcomes : UseCommand(1, i, o)

SpecClient == InitClient /\ [][NextClient]_vars

\* the last run processed a message
Submitted ==
    /\ last_call.op \in {"chat_input", "use_command"}
    /\ last_call.submitted

\* the string the client owes for an outcome of the endpoint call
IsAnswerFor(response, outcome) ==
    CASE outcome.kind = "ok" /\ outcome.text # <<>> -> response = outcome.text[1]
      [] outcome.kind = "ok" /\ outcome.text = <<>> ->
             response = <<"No response generated">>
      [] outcome.kind = "status" ->
             \E i \in 1..Len(response) : response[i] = outcome.code
      [] outcome.kind \in {"ConnectionError", "ConnectTimeout"} ->
             response = <<"Error: Cannot connect to Ollama. Make sure it's running on your system.">>
      [] OTHER ->
             /\ response[1] = "Error: "
             /\ \E i \in 1..Len(response) : response[i] = outcome.message

\* C11: whatever the endpoint call does (text, no text field, a non-success
\* status, a connection failure, a timeout, any other exception) the client
\* returns a string, the one owed for that outcome and never an empty one, and
\* the run still appends the assistant message holding it and stores the log
C11_ClientAlwaysAnswers ==
    Submitted
      => LET s == last_call.session
             log == ss[s].messages
         IN /\ last_call.response # <<>>
            /\ IsAnswerFor(last_call.response, last_call.outcome)
            /\ Len(log) >= 2
            /\ log[Len(log)].role = "assistant"
            /\ log[Len(log)].content = last_call.response
            /\ log[Len(log) - 1].role = "user"
            /\ log[Len(log) - 1].content = last_call.prompt
            /\ MatchingChats(chats_collection, get_safe_username(ss[s].name[1]),
                             ss[s].current_chat_id[1]) # {}
            /\ mongo_load_chat(chats_collection, ss[s].name[1],
                               ss[s].current_chat_id[1], clock).messages = log

\* a second message of the chat met a body with no "response" field, after a
\* first one met a connection failure: both answers are in the stored log
C11_Witness ==
    /\ Submitted
    /\ last_call.outcome = [kind |-> "ok", text |-> <<>>]
    /\ Len(ss[1].messages) = 4
    /\ ss[1].messages[2].content =
          <<"Error: Cannot connect to Ollama. Make sure it's running on your system.">>
    /\ ss[1].messages[4].content = <<"No response generated">>
    /\ mongo_load_chat(chats_collection, ss[1].name[1],
                       ss[1].current_chat_id[1], clock).messages = ss[1].messages

\* the log of the session of the last run as it was before that run
LogBefore ==
    SubSeq(ss[last_call.session].messages, 1,
           Len(ss[last_call.session].messages) - 2)

\* C16: the transcript sent for a message renders the prompt once, as the
\* final "User: <prompt>" cue before "Assistant:"; ahead of the cue are the
\* messages of the log before this message, and not the user message just
\* appended
C16_PromptRenderedOnce ==
    Submitted => last_call.request.prompt = FullPrompt(last_call.prompt, LogBefore)

\* what the code sends: the user message just appended is rendered ahead of
\* the cue, so the prompt is in the transcript twice
C16_PromptRenderedTwice ==
    Submitted
      => last_call.request.prompt =
            FullPrompt(last_call.prompt,
                       Append(LogBefore,
                              ss[last_call.session].messages[
                                  Len(ss[last_call.session].messages) - 1]))

-----------------------------------------------------------------------------
(* C12: the export of the library imported again *)

\* the (command, content) pairs of a library
CommandContents(coll) == {<<coll[i].command, coll[i].content>> : i \in 1..Len(coll)}

\* the step uploads the export of a library that is not empty
RoundTripStep ==
    /\ prompts_collection # <<>>
    /\ last_call'.op = "import"
    /\ last_call'.json_str = export_prompts_to_json(prompts_collection)

\* C12: importing the export of a library that is not empty reports every
\* entry, raises nothing and leaves the same (command, content) pairs, no
\* entry added, removed or changed in content; importing the export of the
\* result again, at any later time, changes nothing further
C12_ExportImportRoundTrip ==
    [][RoundTripStep
         => /\ last_call'.raised = ""
            /\ last_call'.ret = <<Len(prompts_collection)>>
            /\ Len(prompts_collection') = Len(prompts_collection)
            /\ CommandContents(prompts_collection') = CommandContents(prompts_collection)
            /\ \A now \in 0..MaxClock :
                  LET again == import_prompts_from_json(
                                   prompts_collection',
                                   export_prompts_to_json(prompts_collection'), now)
                  IN /\ again.raised = ""
                     /\ Len(again.coll) = Len(prompts_collection')
                     /\ CommandContents(again.coll) =
                           CommandContents(prompts_collection')]_vars

\* the export of a library of two entries, one of them saved over by the
\* title "g", has been uploaded
C12_Witness ==
    /\ last_call.op = "import"
    /\ last_call.json_str = export_prompts_to_json(prompts_collection)
    /\ last_call.ret = <<2>>
    /\ Len(prompts_collection) = 2
    /\ \E i \in 1..2 : /\ prompts_collection[i].title = <<"g">>
                       /\ prompts_collection[i].command = <<"/", "g">>

-----------------------------------------------------------------------------
(* C14: loadChat of a chat id that is stored, and of one that is not *)

\* what load_chat owes for the sessions stored under a key and a chat id: the
\* stored session, or an empty log with a timestamp that is not empty
IsLoadOf(ret, stored) ==
    IF stored = {}
    THEN ret.messages = <<>> /\ ret.last_updated # <<>>
    ELSE stored = {[messages |-> ret.messages, last_updated |-> ret.last_updated]}

\* C14: load_chat(user, chat id), of the document store and of the file store,
\* returns an empty message list and a timestamp that is not empty when the
\* chat id is not stored for the normalized user, and the stored messages and
\* last_updated when it is; it raises nothing and it changes neither store
C14_LoadChatDefault ==
    [][/\ last_call'.op = "mongo_load_chat"
          => /\ IsLoadOf(last_call'.ret,
                         MongoStored(chats_collection,
                                     NormalKey(last_call'.user_name),
                                     last_call'.chat_id))
             /\ chats_collection' = chats_collection
             /\ files' = files
       /\ last_call'.op = "file_load_chat"
          => /\ IsLoadOf(last_call'.ret,
                         FileStored(files, NormalKey(last_call'.user_name),
                                    last_call'.chat_id))
             /\ chats_collection' = chats_collection
             /\ files' = files
      ]_vars

\* "Bo" has loaded from the document store a chat id stored for "a_l" only,
\* and got the empty session with the time of the call
C14_Witness ==
    /\ last_call.op = "mongo_load_chat"
    /\ last_call.user_name = <<"B", "o">>
    /\ MongoStored(chats_collection, <<"a", "_", "l">>, last_call.chat_id) # {}
    /\ MongoStored(chats_collection, <<"b", "o">>, last_call.chat_id) = {}
    /\ last_call.ret = [messages |-> <<>>, last_updated |-> Timestamp(clock)]
    /\ clock > 0

-----------------------------------------------------------------------------
(* Two browser sessions of one process, sharing the stores: each script run *)
(* reads and writes the chat store in one call                              *)

\* the accounts that log in, and what they type
SharedAccounts == {u \in Credentials : u.username = "al"}
SharedInputs == {<<"g">>, <<"/", "g">>}

InitShared ==
    /\ ss = [s \in {1, 2} |-> FreshSession]
    /\ chats_collection = <<>>
    /\ prompts_collection = <<DocG>>
    /\ files = <<>>
    /\ next_uuid = 0
    /\ clock = 0
    /\ last_call = NoCall

NextShared ==
    \/ \E s \in DOMAIN ss, u \in SharedAccounts : Login(s, u)
    \/ \E s \in DOMAIN ss : Logout(s)
    \/ \E s \in DOMAIN ss : NewChat(s)
    \/ \E s \in DOMAIN ss, c \in {UuidPool[i] : i \in 1..Len(UuidPool)} :
          SelectHistory(s, c)
    \/ \E s \in DOMAIN ss, user_input \in SharedInputs, o \in SessionOutcomes :
          ChatInput(s, user_input, o)

SpecShared == InitShared /\ [][NextShared]_vars

\* log a is the beginning of log b
IsPrefix(a, b) == Len(a) <= Len(b) /\ SubSeq(b, 1, Len(a)) = a

\* C13 as stated: a chat stored for a user stays stored after every step, and
\* the log stored for it before the step is the beginning of the log stored
\* for it after the step
C13_PersistedOnlyExtended ==
    [][\A i \in 1..Len(chats_collection) :
          \E j \in 1..Len(chats_collection') :
              /\ chats_collection'[j].user_name = chats_collection[i].user_name
              /\ chats_collection'[j].chat_id = chats_collection[i].chat_id
              /\ IsPrefix(chats_collection[i].messages,
                          chats_collection'[j].messages)]_vars

\* C13 as amended: a chat stored for a user stays stored; its stored log
\* changes only when a session processes a message in that chat, and becomes
\* the log of that session before the run with the two new messages; it is
\* an extension of the log stored before whenever the session's log began
\* with it, and always while only one session has ever logged in
C13_PersistedReplacedBySubmitter ==
    [][\A i \in 1..Len(chats_collection) :
          \E j \in 1..Len(chats_collection') :
              /\ chats_collection'[j].user_name = chats_collection[i].user_name
              /\ chats_collection'[j].chat_id = chats_collection[i].chat_id
              /\ \/ chats_collection'[j].messages = chats_collection[i].messages
                 \/ \E s \in DOMAIN ss :
                       /\ SubmittedBy(s)
                       /\ ss[s].current_chat_id = Some(chats_collection[i].chat_id)
                       /\ get_safe_username(ss[s].name[1]) =
                             chats_collection[i].user_name
                       /\ chats_collection'[j].messages = ss'[s].messages
                       /\ Len(ss'[s].messages) = Len(ss[s].messages) + 2
                       /\ IsPrefix(ss[s].messages, ss'[s].messages)
                       /\ IsPrefix(chats_collection[i].messages, ss[s].messages)
                             => IsPrefix(chats_collection[i].messages,
                                         chats_collection'[j].messages)
              /\ (\E t \in DOMAIN ss : ss[t] = FreshSession /\ ss'[t] = FreshSession)
                    => IsPrefix(chats_collection[i].messages,
                                chats_collection'[j].messages)]_vars

\* a session has processed the second message of a chat it had left and
\* selected again from the history, and the stored log is its log of four
C13_Witness ==
    \E s \in DOMAIN ss :
        /\ last_call.op = "chat_input"
        /\ last_call.session = s
        /\ last_call.submitted
        /\ next_uuid = 2
        /\ ss[s].current_chat_id = Some(UuidPool[1])
        /\ Len(ss[s].messages) = 4
        /\ MongoStored(chats_collection, <<"a", "l">>, UuidPool[1])
              = {[messages |-> ss[s].messages, last_updated |-> Timestamp(clock)]}

-----------------------------------------------------------------------------
(* C15: two sessions of one user in the same chat *)

\* C15: when a session processes a message, the log stored for its user and
\* its chat id afterwards is exactly its own log, whatever another session of
\* the same user has stored for that chat id in between (the turns of the
\* other session are not merged in); the logs of the other sessions and the
\* chats stored under every other chat id are as they were
C15_LastWriterWins ==
    [][\A s \in DOMAIN ss :
          SubmittedBy(s)
            => LET key == get_safe_username(ss[s].name[1])
                   chat_id == ss[s].current_chat_id[1]
               IN /\ MongoStored(chats_collection', key, chat_id) =
                        {[messages |-> ss'[s].messages,
                          last_updated |-> Timestamp(clock)]}
                  /\ ss'[s].messages =
                        ss[s].messages \o
                        SubSeq(ss'[s].messages, Len(ss[s].messages) + 1,
                               Len(ss[s].messages) + 2)
                  /\ Len(ss'[s].messages) = Len(ss[s].messages) + 2
                  /\ \A t \in DOMAIN ss \ {s} : ss'[t] = ss[t]
                  /\ \A c \in {UuidPool[i] : i \in 1..Len(UuidPool)} \ {chat_id} :
                        MongoStored(chats_collection', key, c) =
                           MongoStored(chats_collection, key, c)
                  /\ Len(chats_collection') =
                        IF MongoStored(chats_collection, key, chat_id) = {}
                        THEN Len(chats_collection) + 1
                        ELSE Len(chats_collection)]_vars

\* both sessions of the user are in the same chat and each has processed a
\* second message there; session 1 stored last, and the stored log is its
\* log, without the turn of session 2
C15_Witness ==
    /\ ss[1].authentication_status = "True"
    /\ ss[2].authentication_status = "True"
    /\ ss[1].name = ss[2].name
    /\ ss[1].current_chat_id # None
    /\ ss[1].current_chat_id = ss[2].current_chat_id
    /\ last_call.op = "chat_input"
    /\ last_call.session = 1
    /\ last_call.submitted
    /\ Len(ss[1].messages) = 4
    /\ Len(ss[2].messages) = 4
    /\ ss[1].messages # ss[2].messages
    /\ ss[2].chat_history[ss[2].current_chat_id[1]].messages = ss[2].messages
    /\ mongo_load_chat(chats_collection, ss[1].name[1],
                       ss[1].current_chat_id[1], clock).messages = ss[1].messages
    /\ Len(chats_collection) = 1

=============================================================================
